---- MODULE Spec2Model ----
(***************************************************************************)
(* Model of src/app.py: the crowdfunding demo.  The database tables        *)
(* (users, projects, investments) are shared by all browser sessions       *)
(* through the cached connection; st.session_state is per session.         *)
(* Amounts are whole euros.  Strings that the code converts (emails and    *)
(* display names: strip, lower) are sequences of one-character strings.    *)
(* Uploaded images are left out: image_path is always NULL.                *)
(***************************************************************************)
EXTENDS Integers, Sequences, FiniteSets, TLC

\* ---------------------------------------------------------------- bounds
MaxProjects == 2
MaxInvestments == 2
MaxConcProjects == 1
MaxConcInvestments == 2
MaxRoundProjects == 1
MaxRoundInvestments == 1

\* ---------------------------------------------------------------- inputs
Sessions == {"s1", "s2"}

\* None of Python / NULL of SQL: no string of characters equals it.
None == <<"<None>">>

EmailInputs == { <<" ", "A", "@">>, <<"a", "@">>, <<"b", "@">>, <<" ">>, <<"a">> }
NameInputs == { <<" ">>, <<"N">> }
PasswordInputs == { "", "p", "q" }
ProjectNames == { "", "P" }
Descriptions == { "", "D" }
NeededValues == { 0, 2 }
InterestRates == { 0, 5 }
Amounts == { 0, 1, 2 }

\* (email, name, password, confirmation) as typed into the register form
RegisterInputs ==
  { <<e, n, pw[1], pw[2]>> :
      e \in { <<" ", "A", "@">>, <<"b", "@">>, <<" ">>, <<"a">> },
      n \in NameInputs,
      pw \in { <<"", "">>, <<"p", "p">>, <<"q", "q">>, <<"p", "q">> } }

\* ------------------------------------------------------- string helpers
RECURSIVE LStrip(_)
LStrip(s) == IF s # <<>> /\ Head(s) = " " THEN LStrip(Tail(s)) ELSE s

RECURSIVE RStrip(_)
RStrip(s) ==
  IF s # <<>> /\ s[Len(s)] = " " THEN RStrip(SubSeq(s, 1, Len(s) - 1)) ELSE s

\* str.strip()
Strip(s) == RStrip(LStrip(s))

LowerChar(c) == CASE c = "A" -> "a" [] c = "B" -> "b" [] c = "N" -> "n" [] OTHER -> c

\* str.lower()
Lower(s) == [i \in DOMAIN s |-> LowerChar(s[i])]

\* "@" in s
HasAt(s) == \E i \in DOMAIN s : s[i] = "@"

\* x or y
Or(x, y) == IF x # None /\ x # <<>> THEN x ELSE y

Max(a, b) == IF a >= b THEN a ELSE b

\* hashlib.sha256(password).hexdigest(), first eight hex digits
_hash_password(password) ==
  CASE password = "" -> "e3b0c442"
    [] password = "p" -> "148de9c5"
    [] password = "q" -> "8e35c2cd"

\* ---------------------------------------------------------------- state
VARIABLES
  users,        \* table users, in id order
  projects,     \* table projects, in id order (id = position)
  investments,  \* table investments, in id order
  auth,         \* st.session_state.auth of each session
  selected,     \* st.session_state["selected_project_id"], 0 when absent
  msg,          \* what the latest script run reported (st.error / st.success)
  lastAuth,     \* history: the session's latest authentication event
  registered,   \* history: <<email, password>> as typed, of every accepted
                \* "Create account" submission
  pc,           \* where the session's script thread is in "Invest now"
  local         \* the script thread's locals in page_invest

vars == <<users, projects, investments, auth, selected, msg, lastAuth, registered,
          pc, local>>

LoggedOut == [logged_in |-> FALSE, username |-> None, name |-> None]
\* a value of the history variable lastAuth
NoAuthEvent(event) == [event |-> event, email |-> None, matched |-> FALSE]
NoLocal == [project |-> <<>>, amount |-> 0]

Init ==
  /\ users = <<>>
  /\ projects = <<>>
  /\ investments = <<>>
  /\ auth = [s \in Sessions |-> LoggedOut]
  /\ selected = [s \in Sessions |-> 0]
  /\ msg = ""
  /\ lastAuth = [s \in Sessions |-> NoAuthEvent("none")]
  /\ registered = {}
  /\ pc = [s \in Sessions |-> "idle"]
  /\ local = [s \in Sessions |-> NoLocal]

\* ------------------------------------------------------ database helpers
\* fetchone() gives <<row>>, or NoRow where Python gets None.
NoRow == <<>>

\* SELECT * FROM users WHERE email = ? ; fetchone()
get_user_by_email(us, email) ==
  IF \E i \in DOMAIN us : us[i].email = email
    THEN <<us[CHOOSE i \in DOMAIN us : us[i].email = email]>>
    ELSE NoRow

\* create_user on a table without UNIQUE on email
create_userNoUnique(us, email, password_plain, display_name) ==
  [raised |-> FALSE,
   users |-> Append(us, [email |-> email,
                         display_name |-> display_name,
                         password_hash |-> _hash_password(password_plain)])]

\* INSERT INTO users: the UNIQUE constraint on email raises IntegrityError
\* and leaves the table as it was.
create_user(us, email, password_plain, display_name) ==
  IF \E i \in DOMAIN us : us[i].email = email
    THEN [raised |-> TRUE, users |-> us]
    ELSE [raised |-> FALSE,
          users |-> Append(us, [email |-> email,
                                display_name |-> display_name,
                                password_hash |-> _hash_password(password_plain)])]

\* INSERT INTO projects ... total_raised 0
create_project(ps, name, description, value_needed, interest_rate) ==
  Append(ps, [id |-> Len(ps) + 1,
              name |-> name,
              description |-> description,
              value_needed |-> value_needed,
              interest_rate |-> interest_rate,
              total_raised |-> 0])

\* SELECT * FROM projects ORDER BY created_at DESC: newest first
list_projects(ps) == [i \in DOMAIN ps |-> ps[Len(ps) + 1 - i]]

\* SELECT * FROM projects WHERE id = ? ; fetchone()
get_project(ps, project_id) ==
  IF \E i \in DOMAIN ps : ps[i].id = project_id
    THEN <<ps[CHOOSE i \in DOMAIN ps : ps[i].id = project_id]>>
    ELSE NoRow

\* InsertInvestment as the anonymous-investing version writes the row
InsertInvestmentAnonymous(invs, project_id, amount, investor_name, investor_username) ==
  Append(invs, [project_id |-> project_id,
                investor_name |-> None,
                investor_username |-> None,
                amount |-> amount])

\* the INSERT of add_investment
InsertInvestment(invs, project_id, amount, investor_name, investor_username) ==
  Append(invs, [project_id |-> project_id,
                investor_name |-> investor_name,
                investor_username |-> investor_username,
                amount |-> amount])

\* UpdateRaised with "SET total_raised = ?" in place of "total_raised + ?"
UpdateRaisedOverwrite(ps, project_id, amount) ==
  [i \in DOMAIN ps |->
     IF ps[i].id = project_id THEN [ps[i] EXCEPT !.total_raised = amount] ELSE ps[i]]

\* the UPDATE of add_investment: total_raised = total_raised + ? WHERE id = ?
UpdateRaised(ps, project_id, amount) ==
  [i \in DOMAIN ps |->
     IF ps[i].id = project_id
       THEN [ps[i] EXCEPT !.total_raised = ps[i].total_raised + amount]
       ELSE ps[i]]

\* ------------------------------------------------------------ page logic
\* Remaining with the raised total forgotten
RemainingIgnoresRaised(p) == Max(p.value_needed, 0)

\* remaining = max(value_needed - total_raised, 0)
Remaining(p) == Max(p.value_needed - p.total_raised, 0)

\* Fractions <<numerator, denominator>> with a positive denominator stand
\* for the floats of the progress computation.
FracLeq(a, b) == a[1] * b[2] <= b[1] * a[2]
FracMax(a, b) == IF FracLeq(b, a) THEN a ELSE b
FracMin(a, b) == IF FracLeq(a, b) THEN a ELSE b

\* Progress without the min(..., 1)
ProgressNoUpperClamp(p) == FracMax(<<p.total_raised, p.value_needed>>, <<0, 1>>)

\* progress = total_raised / value_needed; progress = min(max(progress, 0), 1)
\* (computed only under "if value_needed > 0")
Progress(p) ==
  FracMin(FracMax(<<p.total_raised, p.value_needed>>, <<0, 1>>), <<1, 1>>)

\* page_invest, top: the first render with projects selects the newest one.
RenderSelected(sel, ps) ==
  IF ps = <<>> THEN sel
  ELSE IF sel = 0 THEN list_projects(ps)[1].id ELSE sel

\* ---------------------------------------------------------- form handlers
\* LoginSubmit without the .lower() of the typed email
LoginSubmitNoLower(us, email_login, password_login) ==
  LET user == get_user_by_email(us, Strip(email_login))
  IN  IF user = NoRow
        THEN [auth |-> LoggedOut, msg |-> "Incorrect email or password."]
        ELSE IF user[1].password_hash = _hash_password(password_login)
          THEN [auth |-> [logged_in |-> TRUE,
                          username |-> user[1].email,
                          name |-> Or(user[1].display_name, user[1].email)],
                msg |-> "Login successful. Loading your app..."]
          ELSE [auth |-> LoggedOut, msg |-> "Incorrect email or password."]

\* LoginSubmit without the comparison of the hashes
LoginSubmitNoPassword(us, email_login, password_login) ==
  LET user == get_user_by_email(us, Lower(Strip(email_login)))
  IN  IF user = NoRow
        THEN [auth |-> LoggedOut, msg |-> "Incorrect email or password."]
        ELSE [auth |-> [logged_in |-> TRUE,
                        username |-> user[1].email,
                        name |-> Or(user[1].display_name, user[1].email)],
              msg |-> "Login successful. Loading your app..."]

\* login_or_register, "if submitted_login:"
LoginSubmit(us, email_login, password_login) ==
  LET user == get_user_by_email(us, Lower(Strip(email_login)))
  IN  IF user = NoRow
        THEN [auth |-> LoggedOut, msg |-> "Incorrect email or password."]
        ELSE IF user[1].password_hash = _hash_password(password_login)
          THEN [auth |-> [logged_in |-> TRUE,
                          username |-> user[1].email,
                          name |-> Or(user[1].display_name, user[1].email)],
                msg |-> "Login successful. Loading your app..."]
          ELSE [auth |-> LoggedOut, msg |-> "Incorrect email or password."]

\* login_or_register, "if submitted_register:"
RegisterSubmit(us, email_input, name_reg, password_reg, password_confirm) ==
  LET email_reg == Lower(Strip(email_input))
  IN  IF email_reg = <<>> \/ password_reg = ""
        THEN [users |-> us, msg |-> "Email and password are required."]
        ELSE IF ~HasAt(email_reg)
          THEN [users |-> us, msg |-> "Please enter a valid email."]
        ELSE IF password_reg # password_confirm
          THEN [users |-> us, msg |-> "Passwords do not match."]
        ELSE LET r == create_user(us, email_reg, password_reg,
                                  Or(Strip(name_reg), None))
             IN  IF r.raised
                   THEN [users |-> r.users,
                         msg |-> "This email is already registered. Try logging in instead."]
                   ELSE [users |-> r.users,
                         msg |-> "Account created! You can now log in with your credentials."]

\* ProjectSubmit without "value_needed <= 0" in the validation
ProjectSubmitNoAmountCheck(ps, name, description, value_needed, interest_rate) ==
  IF name = "" \/ description = ""
    THEN [projects |-> ps,
          msg |-> "Please fill in the name, description and a positive amount needed."]
    ELSE [projects |-> create_project(ps, name, description, value_needed, interest_rate),
          msg |-> "Project created successfully!"]

\* page_submit_project, "if submitted:"
ProjectSubmit(ps, name, description, value_needed, interest_rate) ==
  IF name = "" \/ description = "" \/ value_needed <= 0
    THEN [projects |-> ps,
          msg |-> "Please fill in the name, description and a positive amount needed."]
    ELSE [projects |-> create_project(ps, name, description, value_needed, interest_rate),
          msg |-> "Project created successfully!"]

\* InvestCheck without the comparison to the remaining amount
InvestCheckNoLimit(project, invest_amount) ==
  IF invest_amount <= 0 THEN "Please enter a positive amount."
  ELSE "Thank you for your investment!"

\* page_invest, the checks under "Invest now" against the row that was read
InvestCheck(project, invest_amount) ==
  IF invest_amount <= 0 THEN "Please enter a positive amount."
  ELSE IF invest_amount > Remaining(project)
    THEN "Amount exceeds the remaining amount needed for this project."
  ELSE "Thank you for your investment!"

InvestAccepted == "Thank you for your investment!"

\* the texts given to st.error
ErrorMessages ==
  { "Incorrect email or password.",
    "Email and password are required.",
    "Please enter a valid email.",
    "Passwords do not match.",
    "This email is already registered. Try logging in instead.",
    "Please fill in the name, description and a positive amount needed.",
    "Please enter a positive amount.",
    "Amount exceeds the remaining amount needed for this project." }

\* add_investment: INSERT, UPDATE, commit
add_investment(db, project_id, amount, investor_name, investor_username) ==
  [investments |-> InsertInvestment(db.investments, project_id, amount,
                                    investor_name, investor_username),
   projects |-> UpdateRaised(db.projects, project_id, amount)]

\* ---------------------------------------------------------------- actions
\* One action is one script run of a session, started by one widget event.
Idle(s) == pc[s] = "idle"

\* "Login" on the login form (shown only to a session that is not logged in);
\* on success st.rerun() renders the pages, page_invest among them.
Login(s, email_login, password_login) ==
  /\ Idle(s) /\ ~auth[s].logged_in
  /\ LET r == LoginSubmit(users, email_login, password_login)
     IN  /\ auth' = [auth EXCEPT ![s] = r.auth]
         /\ msg' = r.msg
         /\ selected' = [selected EXCEPT ![s] =
              IF r.auth.logged_in THEN RenderSelected(selected[s], projects)
              ELSE selected[s]]
  /\ lastAuth' = [lastAuth EXCEPT ![s] =
       [event |-> "login",
        email |-> Lower(Strip(email_login)),
        matched |-> \E i \in DOMAIN users :
                      /\ users[i].email = Lower(Strip(email_login))
                      /\ users[i].password_hash = _hash_password(password_login)]]
  /\ UNCHANGED <<registered, users, projects, investments, pc, local>>

\* "Create account" on the register form
Register(s, email_input, name_reg, password_reg, password_confirm) ==
  /\ Idle(s) /\ ~auth[s].logged_in
  /\ LET r == RegisterSubmit(users, email_input, name_reg, password_reg, password_confirm)
     IN  /\ users' = r.users
         /\ msg' = r.msg
         /\ registered' =
              IF r.msg = "Account created! You can now log in with your credentials."
                THEN registered \cup {<<email_input, password_reg>>}
                ELSE registered
  /\ lastAuth' = [lastAuth EXCEPT ![s] = NoAuthEvent("register")]
  /\ UNCHANGED <<projects, investments, auth, selected, pc, local>>

\* logout(): the sidebar button's callback; the run that follows shows the
\* login page.
Logout(s) ==
  /\ Idle(s) /\ auth[s].logged_in
  /\ auth' = [auth EXCEPT ![s] = LoggedOut]
  /\ msg' = ""
  /\ lastAuth' = [lastAuth EXCEPT ![s] = NoAuthEvent("logout")]
  /\ UNCHANGED <<registered, users, projects, investments, selected, pc, local>>

\* "Create project"; page_invest is rendered later in the same run.
SubmitProject(s, name, description, value_needed, interest_rate) ==
  /\ Idle(s) /\ auth[s].logged_in
  /\ LET r == ProjectSubmit(projects, name, description, value_needed, interest_rate)
     IN  /\ projects' = r.projects
         /\ msg' = r.msg
         /\ selected' = [selected EXCEPT ![s] = RenderSelected(selected[s], r.projects)]
  /\ UNCHANGED <<registered, users, investments, auth, lastAuth, pc, local>>

\* "Select this project" on the card of project_id
SelectProject(s, project_id) ==
  /\ Idle(s) /\ auth[s].logged_in
  /\ \E i \in DOMAIN projects : projects[i].id = project_id
  /\ selected' = [selected EXCEPT ![s] = project_id]
  /\ msg' = ""
  /\ UNCHANGED <<registered, users, projects, investments, auth, lastAuth, pc, local>>

\* "Invest now", the run taken as one step: read the selected row, check,
\* add_investment, st.rerun().
InvestNow(s, invest_amount) ==
  /\ Idle(s) /\ auth[s].logged_in
  /\ selected[s] # 0
  /\ LET project == get_project(projects, selected[s])
     IN  /\ project # NoRow
         /\ LET check == InvestCheck(project[1], invest_amount)
                db == IF check = InvestAccepted
                        THEN add_investment(
                               [investments |-> investments, projects |-> projects],
                               project[1].id, invest_amount,
                               auth[s].name, auth[s].username)
                        ELSE [investments |-> investments, projects |-> projects]
            IN  /\ investments' = db.investments
                /\ projects' = db.projects
                /\ msg' = check
  /\ UNCHANGED <<registered, users, auth, selected, lastAuth, pc, local>>

\* The run of "Invest now" as the script thread takes it, other sessions'
\* threads running in between: get_project ...
InvestRead(s, invest_amount) ==
  /\ Idle(s) /\ auth[s].logged_in
  /\ selected[s] # 0
  /\ get_project(projects, selected[s]) # NoRow
  /\ local' = [local EXCEPT ![s] =
       [project |-> get_project(projects, selected[s]), amount |-> invest_amount]]
  /\ pc' = [pc EXCEPT ![s] = "read"]
  /\ UNCHANGED <<registered, users, projects, investments, auth, selected, msg, lastAuth>>

\* ... the checks and, when they pass, the INSERT of add_investment ...
InvestInsert(s) ==
  /\ pc[s] = "read"
  /\ LET check == InvestCheck(local[s].project[1], local[s].amount)
     IN  IF check = InvestAccepted
           THEN /\ investments' = InsertInvestment(investments, local[s].project[1].id,
                                    local[s].amount, auth[s].name, auth[s].username)
                /\ pc' = [pc EXCEPT ![s] = "inserted"]
                /\ UNCHANGED <<msg, local>>
           ELSE /\ msg' = check
                /\ pc' = [pc EXCEPT ![s] = "idle"]
                /\ local' = [local EXCEPT ![s] = NoLocal]
                /\ UNCHANGED investments
  /\ UNCHANGED <<registered, users, projects, auth, selected, lastAuth>>

\* ... and the UPDATE and commit of add_investment, then st.rerun().
InvestUpdate(s) ==
  /\ pc[s] = "inserted"
  /\ projects' = UpdateRaised(projects, local[s].project[1].id, local[s].amount)
  /\ msg' = InvestAccepted
  /\ pc' = [pc EXCEPT ![s] = "idle"]
  /\ local' = [local EXCEPT ![s] = NoLocal]
  /\ UNCHANGED <<registered, users, investments, auth, selected, lastAuth>>

\* ---------------------------------------------------------- specifications
\* Two accounts: "a@" shown as "N", "b@" without a display name.
Accounts == { <<<<" ", "A", "@">>, <<"N">>, "p">>, <<<<"b", "@">>, <<" ">>, "p">> }

\* One session uses the whole application; every script run is one step.
Next ==
  \E s \in {"s1"} :
    \/ \E a \in Accounts : Register(s, a[1], a[2], a[3], a[3])
    \/ \E a \in Accounts : Login(s, a[1], a[3])
    \/ Logout(s)
    \/ /\ Len(projects) < MaxProjects
       /\ \E n \in ProjectNames, d \in Descriptions, v \in NeededValues, r \in InterestRates :
            SubmitProject(s, n, d, v, r)
    \/ \E i \in 1..MaxProjects : SelectProject(s, i)
    \/ /\ Len(investments) < MaxInvestments
       /\ \E a \in Amounts : InvestNow(s, a)

Spec == Init /\ [][Next]_vars

\* Two sessions on the login page, with every kind of form input.
NextAuth ==
  \E s \in Sessions :
    \/ \E r \in RegisterInputs : Register(s, r[1], r[2], r[3], r[4])
    \/ \E e \in EmailInputs, p \in PasswordInputs : Login(s, e, p)
    \/ Logout(s)

SpecAuth == Init /\ [][NextAuth]_vars

\* Two sessions whose "Invest now" runs interleave.
NextConc ==
  \E s \in Sessions :
    \/ Register(s, <<"a", "@">>, <<"N">>, "p", "p")
    \/ Login(s, <<"a", "@">>, "p")
    \/ Logout(s)
    \/ /\ Len(projects) < MaxConcProjects
       /\ SubmitProject(s, "P", "D", 2, 5)
    \/ \E i \in 1..MaxConcProjects : SelectProject(s, i)
    \/ /\ Len(investments) + Cardinality({t \in Sessions : pc[t] = "read"})
            < MaxConcInvestments
       /\ \E a \in Amounts : InvestRead(s, a)
    \/ InvestInsert(s)
    \/ InvestUpdate(s)

SpecConc == Init /\ [][NextConc]_vars

\* what the sessions of SpecRound type into the register form
RoundRegisterInputs ==
  { <<e, <<"N">>, pw[1], pw[2]>> :
      e \in { <<" ", "A", "@">>, <<"b", "@">> },
      pw \in { <<"p", "p">>, <<"q", "q">> } }

\* ... and into the login form
RoundLoginInputs ==
  { <<e, p>> : e \in { <<" ", "A", "@">>, <<"a", "@">>, <<"b", "@">> }, p \in { "p", "q" } }

\* Two sessions that register, log in and out, create projects and invest.
NextRound ==
  \E s \in Sessions :
    \/ \E r \in RoundRegisterInputs : Register(s, r[1], r[2], r[3], r[4])
    \/ \E l \in RoundLoginInputs : Login(s, l[1], l[2])
    \/ Logout(s)
    \/ /\ Len(projects) < MaxRoundProjects
       /\ SubmitProject(s, "P", "D", 2, 5)
    \/ \E i \in 1..MaxRoundProjects : SelectProject(s, i)
    \/ /\ Len(investments) < MaxRoundInvestments
       /\ InvestNow(s, 1)

SpecRound == Init /\ [][NextRound]_vars

\* ------------------------------------------------------------ properties
RECURSIVE SumAmounts(_, _)
\* the sum of the amounts of the investment rows of project_id
SumAmounts(invs, project_id) ==
  IF invs = <<>> THEN 0
  ELSE (IF Head(invs).project_id = project_id THEN Head(invs).amount ELSE 0)
       + SumAmounts(Tail(invs), project_id)

C2_RemainingIsDifference ==
  \A i \in DOMAIN projects :
    Remaining(projects[i]) = projects[i].value_needed - projects[i].total_raised

\* The progress value of row p is a number of [0,1] and is the ratio
\* total_raised / value_needed clamped to [0,1].
ProgressIsClampedRatio(p) ==
  LET pr == Progress(p)
  IN  /\ pr[2] > 0
      /\ 0 <= pr[1] /\ pr[1] <= pr[2]
      /\ p.total_raised < 0 => pr[1] = 0
      /\ p.total_raised > p.value_needed => pr[1] = pr[2]
      /\ (0 <= p.total_raised /\ p.total_raised <= p.value_needed) =>
           pr[1] * p.value_needed = p.total_raised * pr[2]

\* C3: for every project with value_needed > 0, as listed by list_projects
\* or as read by get_project for the selected-project panel, the progress
\* value lies in [0,1] and is total_raised / value_needed clamped to [0,1].
C3_ProgressClamped ==
  /\ \A i \in DOMAIN projects :
       projects[i].value_needed > 0 => ProgressIsClampedRatio(projects[i])
  /\ \A s \in Sessions :
       (local[s].project # NoRow /\ local[s].project[1].value_needed > 0) =>
         ProgressIsClampedRatio(local[s].project[1])

C3_Witness ==
  \E i \in DOMAIN projects :
    /\ projects[i].value_needed > 0
    /\ projects[i].total_raised > projects[i].value_needed
    /\ Progress(projects[i]) = <<1, 1>>

\* C9: with the script runs of one session, each taken as one step, every
\* project has 0 <= total_raised <= value_needed.
C9_NeverOverFundedSingleSession ==
  \A i \in DOMAIN projects :
    /\ 0 <= projects[i].total_raised
    /\ projects[i].total_raised <= projects[i].value_needed

C9_Witness ==
  /\ Len(investments) = 2
  /\ investments[1].amount = 1 /\ investments[2].amount = 1
  /\ \E i \in DOMAIN projects :
       /\ projects[i].total_raised = projects[i].value_needed
       /\ SumAmounts(investments, projects[i].id) = projects[i].value_needed

\* C10: with the "Invest now" runs of two sessions interleaved, every
\* project has total_raised <= value_needed.
C10_NeverOverFundedInterleaved ==
  \A i \in DOMAIN projects : projects[i].total_raised <= projects[i].value_needed

\* C4: a session is logged in exactly when its latest authentication event
\* is a login submission for which a users row with the stripped,
\* lower-cased email and the hash of the submitted password existed (so not
\* after an unmatched login, a registration or a logout), and then its
\* username is that row's email and its name the row's display name, or the
\* email when the row has none.
C4_LoggedInOnlyAfterMatchingLogin ==
  \A s \in Sessions :
    /\ auth[s].logged_in <=> (lastAuth[s].event = "login" /\ lastAuth[s].matched)
    /\ auth[s].logged_in =>
         /\ auth[s].username = lastAuth[s].email
         /\ \E i \in DOMAIN users :
              /\ users[i].email = auth[s].username
              /\ auth[s].name = IF users[i].display_name = None
                                  THEN users[i].email ELSE users[i].display_name
    /\ ~auth[s].logged_in => (auth[s].username = None /\ auth[s].name = None)

C4_Witness ==
  \E s, t \in Sessions :
    /\ auth[s].logged_in /\ auth[s].username = <<"a", "@">>
    /\ ~auth[t].logged_in
    /\ lastAuth[t].event = "login" /\ lastAuth[t].email = <<"a", "@">>
    /\ ~lastAuth[t].matched

\* An accepted or rejected "Invest now" step of session s with amount a,
\* seen from outside: rem is the remaining amount of the selected project.
InvestStepOk(s, a) ==
  LET i == CHOOSE i \in DOMAIN projects : projects[i].id = selected[s]
      diff == projects[i].value_needed - projects[i].total_raised
      rem == IF diff > 0 THEN diff ELSE 0
  IN  IF a <= 0 \/ a > rem
        THEN /\ msg' \in ErrorMessages
             /\ investments' = investments
             /\ projects' = projects
        ELSE /\ Len(projects') = Len(projects)
             /\ \A j \in DOMAIN projects :
                  projects'[j] =
                    IF j = i
                      THEN [projects[j] EXCEPT !.total_raised = projects[j].total_raised + a]
                      ELSE projects[j]

\* C5: every investment row's project_id is the id of a project row, and a
\* click on "Invest now" that passes the checks adds exactly one investment
\* row, for the selected project, with the name and the email of the user
\* the session is logged in as.
C5_InvestmentRows ==
  /\ [](\A k \in DOMAIN investments :
          \E i \in DOMAIN projects : projects[i].id = investments[k].project_id)
  /\ [][\A s \in Sessions, a \in Amounts :
          (InvestNow(s, a) /\ msg' = InvestAccepted) =>
            /\ Len(investments') = Len(investments) + 1
            /\ SubSeq(investments', 1, Len(investments)) = investments
            /\ LET row == investments'[Len(investments')]
               IN  /\ row.project_id = selected[s]
                   /\ row.amount = a
                   /\ row.investor_username = auth[s].username
                   /\ row.investor_name = auth[s].name
                   /\ \E u \in DOMAIN users :
                        /\ users[u].email = row.investor_username
                        /\ row.investor_name =
                             IF users[u].display_name = None
                               THEN users[u].email ELSE users[u].display_name]_vars

C5_Witness ==
  /\ Len(investments) = 2
  /\ investments[1].investor_username # investments[2].investor_username
  /\ \E k \in DOMAIN investments :
       /\ investments[k].investor_name = <<"N">>
       /\ investments[k].investor_username = <<"a", "@">>

\* C6: a click on "Invest now" with amount <= 0 or amount > remaining
\* reports an error and leaves investments and projects as they were; a
\* click with 0 < amount <= remaining adds the amount to the selected
\* project's total_raised and leaves the other project rows as they were.
C6_InvestValidation ==
  [][\A s \in Sessions, a \in Amounts : InvestNow(s, a) => InvestStepOk(s, a)]_vars

C6_Witness ==
  /\ msg = "Amount exceeds the remaining amount needed for this project."
  /\ Len(projects) = 2
  /\ \E i \in DOMAIN projects :
       projects[i].total_raised = 1 /\ projects[i].id = selected["s1"]

\* C7: a "Create project" submission with an empty name, an empty
\* description or value_needed <= 0 reports an error and leaves projects as
\* it was; any other adds exactly one project row with the submitted name,
\* description, value_needed and interest_rate and total_raised 0, and
\* leaves the earlier project rows and the investments as they were.
C7_CreateProjectValidation ==
  [][\A s \in Sessions, n \in ProjectNames, d \in Descriptions,
        v \in NeededValues, r \in InterestRates :
       SubmitProject(s, n, d, v, r) =>
         IF n = "" \/ d = "" \/ v <= 0
           THEN msg' \in ErrorMessages /\ projects' = projects
           ELSE /\ Len(projects') = Len(projects) + 1
                /\ SubSeq(projects', 1, Len(projects)) = projects
                /\ LET row == projects'[Len(projects')]
                   IN  /\ row.name = n /\ row.description = d
                       /\ row.value_needed = v /\ row.interest_rate = r
                       /\ row.total_raised = 0
                /\ investments' = investments]_vars

C7_Witness ==
  /\ Len(projects) = 2
  /\ projects[1].interest_rate # projects[2].interest_rate
  /\ projects[1].total_raised > 0 /\ projects[2].total_raised = 0
  /\ msg = "Project created successfully!"

\* C8: no two users rows have the same email; a "Create account" submission
\* whose stripped, lower-cased email is empty, lacks "@" or is already
\* registered, or whose password is empty or differs from the confirmation,
\* reports an error and leaves users as it was; any other adds exactly one
\* users row.
C8_UniqueEmails ==
  /\ [](\A i, j \in DOMAIN users : users[i].email = users[j].email => i = j)
  /\ [][\A s \in Sessions :
          lastAuth'[s].event = "register" =>
            \A r \in RegisterInputs :
              Register(s, r[1], r[2], r[3], r[4]) =>
                LET em == Lower(Strip(r[1]))
                IN  IF \/ em = <<>> \/ ~HasAt(em) \/ r[3] = "" \/ r[3] # r[4]
                       \/ \E i \in DOMAIN users : users[i].email = em
                      THEN msg' \in ErrorMessages /\ users' = users
                      ELSE /\ Len(users') = Len(users) + 1
                           /\ SubSeq(users', 1, Len(users)) = users
                           /\ users'[Len(users')].email = em
                           /\ users'[Len(users')].password_hash = _hash_password(r[3])
                           /\ msg' \notin ErrorMessages]_vars

C8_Witness ==
  /\ Len(users) = 2
  /\ users[1].password_hash # users[2].password_hash
  /\ msg = "This email is already registered. Try logging in instead."

\* C11: once a "Create account" submission with email e and password p was
\* accepted, every login submission of a logged-out session with password p
\* and an email that is e after strip and lower (of both) makes the session
\* logged in as that account, whatever registrations, logins, logouts,
\* project creations and investments came in between.
C11_RegisterThenLogin ==
  [][\A s \in Sessions :
       (~auth[s].logged_in /\ lastAuth'[s].event = "login") =>
         \A l \in RoundLoginInputs :
           (/\ \E r \in registered :
                 Lower(Strip(r[1])) = Lower(Strip(l[1])) /\ r[2] = l[2]
            /\ Login(s, l[1], l[2])) =>
             /\ auth'[s].logged_in
             /\ auth'[s].username = Lower(Strip(l[1]))
             /\ \E i \in DOMAIN users :
                  /\ users[i].email = auth'[s].username
                  /\ auth'[s].name = IF users[i].display_name = None
                                       THEN users[i].email ELSE users[i].display_name]_vars

C11_Witness ==
  /\ <<<<" ", "A", "@">>, "q">> \in registered
  /\ Len(users) = 2 /\ users[2].email = <<"a", "@">>
  /\ Len(investments) >= 1 /\ investments[1].investor_username = <<"b", "@">>
  /\ \E s, t \in Sessions :
       /\ s # t
       /\ auth[s].logged_in /\ auth[s].username = <<"a", "@">>
       /\ lastAuth[t].event = "logout"

====
